---- MODULE Spec2Model ----
(***************************************************************************)
(* Client-side session / alert / signal-feed logic of crypto-pulse-mvp.    *)
(*                                                                         *)
(* The repository holds several generations of the same dashboard script.  *)
(* Each generation is a "variant"; a page runs exactly one of them:        *)
(*   S0  src/scripts.js               (token only, phrase alerts)          *)
(*   P3  src/unnamed/part_003         (token + user id, phrase alerts)     *)
(*   SS  src/static/scripts.js        (dashboard, bearer form)             *)
(*   AB  src/static/api.js 73-383     (dashboard, status div)              *)
(*   AC  src/static/api.js 384-665    (dashboard, 429 handling)            *)
(*   P2  src/unnamed/part_002         (ui.js + bearer API object)          *)
(*   P1  src/unnamed/part_001         (ui.js with bulk modal, bearer API)  *)
(*   UI  src/static/ui.js, auth.js, api.js 1-72 (user-id API object)       *)
(* The browser is single threaded: every action below is one run of a      *)
(* handler from a suspension point (await / timer / user event) to the     *)
(* next one.                                                               *)
(***************************************************************************)
EXTENDS Integers, Sequences, FiniteSets, TLC

VARIABLES
    variant,     \* which generation of the script the page runs
    page,        \* "index" | "login" : the document currently loaded
    boot,        \* position of the DOMContentLoaded handler
    client,      \* supabaseClient # null
    token,       \* localStorage[TOKEN_STORAGE_KEY]  (None when absent)
    userId,      \* localStorage[USER_ID_STORAGE_KEY] (None when absent)
    net,         \* alert/session requests in flight, in issue order
    alertsList,  \* what the alert list container shows
    status,      \* createAlertStatus / alertMessage text
    form,        \* the bulk modal's current button / progress elements
    bulks,       \* running submitBulkAlerts invocations
    scanList,    \* what the signal feed shows
    sigNet,      \* signal fetches in flight, in issue order
    feed,        \* the active nav item; signal fetches started / shown
    chart,       \* widgets built in the chart container since it was emptied
    hash,        \* window.location.hash is not empty
    prefs,       \* localStorage: the watchlist and the theme keys
    userWatchlist, \* the symbols rendered in #userWatchlist
    view,        \* style.display of the views, panels and containers
    creates,     \* submissions of the single create form by this document
    event        \* the observable effects of the last step

vars == <<variant, page, boot, client, token, userId, net, alertsList,
          status, form, bulks, scanList, sigNet, feed, chart, hash, prefs,
          userWatchlist, view, creates, event>>

-----------------------------------------------------------------------------
(* Bounds of the model *)

MaxInFlight == 2      \* requests tracked at once in net (and in sigNet)
NumCoins == 2         \* checkboxes of class bulk-asset in the modal
NumTFs == 2           \* checkboxes of class bulk-tf in the modal
MaxBulks == 1         \* submitBulkAlerts invocations running at once
MaxFetches == 3       \* signal fetches started by one document
MaxWidgets == 2       \* widgets counted in the chart container
MaxCreates == 1       \* submissions of the single create form per document
MaxWatchlist == 2     \* symbols in the stored watchlist

-----------------------------------------------------------------------------
(* Values *)

None == "null"

Variants == {"S0", "P3", "SS", "AB", "AC", "P2", "P1", "UI"}
Legacy == {"S0", "P3"}           \* scripts.js with handleLogin
\* part_005 holds the session functions of a scripts.js only (its listing,
\* create and delete functions are those of src/scripts.js); it is a
\* variant of the login specification alone.
WithLogin == Legacy \cup {"P5"}
Dash == {"SS", "AB", "AC"}       \* scripts.js with checkSupabaseSession
Mod == {"P2", "P1", "UI"}        \* ui.js + api.js + auth.js
BearerAPI == {"P2", "P1"}        \* API object of part_002
HasUserId == (Variants \cup {"P5"}) \ {"S0"}

Tokens == {"t1", "t2"}
UserOf(t) == IF t = "t1" THEN "u1" ELSE "u2"
Sessions == {[access_token |-> t, user |-> UserOf(t)] : t \in Tokens}

AlertIds == {42, 7}
Statuses == {200, 401, 422, 429, 500}
AuthFailure == {401, 422}

\* What the network hands back for one request.  neterr: fetch rejects.
\* json: the body parses.  rows: an OK body is a non-empty array.
\* flag: success / session / user / credentials present in an OK body.
Outcomes ==
    {[neterr |-> TRUE, status |-> 0, json |-> FALSE, rows |-> FALSE, flag |-> FALSE]}
    \cup {[neterr |-> FALSE, status |-> 200, json |-> TRUE, rows |-> r, flag |-> f] :
              r \in BOOLEAN, f \in BOOLEAN}
    \cup {[neterr |-> FALSE, status |-> s, json |-> j, rows |-> FALSE, flag |-> FALSE] :
              s \in Statuses \ {200}, j \in BOOLEAN}

Ok(o) == ~o.neterr /\ o.status = 200

\* Body (or query) of a request; "-" is a key that is not sent, None a null.
NoKey == "-"
NoBody == [alert_id |-> 0, user_id |-> "-", signal_type |-> "-",
           target_price |-> "-", asset |-> "-", timeframe |-> "-"]

\* One fetch().  auth: the bearer token, None for the literal "Bearer null",
\* "-" when no Authorization header is sent.  k: the code waiting for it.
Req(ep, method, auth, body, k, cap) ==
    [ep |-> ep, method |-> method, auth |-> auth, body |-> body, k |-> k, cap |-> cap]

NoCap == [token |-> None, bulk |-> 0, seq |-> 0]

\* The record of the last step.
Ev(op, st, sent, nav, x) ==
    [op |-> op, status |-> st, sent |-> sent, nav |-> nav, x |-> x]

NoReq == Req("-", "-", "-", NoBody, "-", NoCap)

\* No session: getSession() / getUser() resolved with null.
NoSession == [access_token |-> None, user |-> None]

\* What else a step's record carries: the alert id or bulk instance it was
\* about, the user's answer to confirm(), the request it answered, whether
\* the answer counted as a success / carried records, the audio cues
\* played, the session the auth client resolved with, the category a click
\* or timer asked for, whether the first record of the answer is fresh.
X(id, confirmed, req, success, rows, audio) ==
    [id |-> id, confirmed |-> confirmed, req |-> req, success |-> success,
     rows |-> rows, audio |-> audio, session |-> NoSession, type |-> "-",
     fresh |-> FALSE]
NoX == X(0, FALSE, NoReq, FALSE, FALSE, 0)
Answered(req) == X(0, FALSE, req, FALSE, FALSE, 0)

RemoveAt(s, i) == [j \in 1..(Len(s) - 1) |-> IF j < i THEN s[j] ELSE s[j + 1]]

\* Requests over the tracking capacity are sent but their answer is never
\* seen (an answer may always fail to arrive).
Track(q, reqs) ==
    IF Len(q) + Len(reqs) <= MaxInFlight THEN q \o reqs ELSE q

-----------------------------------------------------------------------------
(* Page lifecycle *)

\* A text of #bulkProgress: nothing, "Creating alert for ...", or the final
\* report with the success count k and, when the text names it, the total n.
Text(kind, k, n) == [kind |-> kind, k |-> k, n |-> n]
NoText == Text("", 0, 0)

\* The modal: chartModal shown or hidden, and the bulk form inside
\* tv_chart_container (absent until openCreateAlertModal writes it).
FreshForm == [present |-> FALSE, btnDisabled |-> FALSE, btnText |-> "Create Alerts",
              progressShown |-> FALSE, progressText |-> NoText, modalOpen |-> FALSE]

PageOf(target) ==
    CASE target = "login.html" -> "login"
      [] target \in {"index.html", "/"} -> "index"
      [] OTHER -> page                         \* location.reload()

\* The feed of a fresh document: the ALL item is the active one (the refresh
\* timer reads a missing active item as ALL), no fetch started, no answer
\* shown.  started and shown number the fetches in the order they start.
FreshFeed == [active |-> "ALL", started |-> 0, shown |-> 0]

\* localStorage without the watchlist and the theme keys.
NoPrefs == [watchlist |-> None, theme |-> None]

\* style.display of chart-view, signal-view, panel-ai, panel-alerts,
\* mainTableContainer and strategiesContainer.  "markup": not set by the
\* script, the element is displayed as the page's markup has it.
FreshView ==
    [chart |-> "markup", signal |-> "markup", ai |-> "markup", alerts |-> "markup",
     mainTable |-> "markup", strategies |-> "markup"]

\* A navigation unloads the document: pending callbacks are dropped and the
\* next document starts with fresh script state.
Load(target, fragment) ==
    /\ page' = PageOf(target)
    /\ hash' = fragment
    /\ userWatchlist' = <<>>
    /\ view' = FreshView
    /\ boot' = "pending"
    /\ client' = FALSE
    /\ net' = <<>>
    /\ alertsList' = "initial"
    /\ status' = ""
    /\ form' = FreshForm
    /\ bulks' = <<>>
    /\ scanList' = "initial"
    /\ sigNet' = <<>>
    /\ feed' = FreshFeed
    /\ chart' = 0
    /\ creates' = 0

Unload(target) == Load(target, FALSE)

Start ==
    /\ page = "index"
    /\ hash = FALSE
    /\ prefs = NoPrefs
    /\ userWatchlist = <<>>
    /\ view = FreshView
    /\ boot = "pending"
    /\ client = FALSE
    /\ \/ token = None /\ userId = None
       \/ \E s \in Sessions :
             /\ token = s.access_token
             /\ userId = IF variant \in HasUserId THEN s.user ELSE None
    /\ net = <<>>
    /\ alertsList = "initial"
    /\ status = ""
    /\ form = FreshForm
    /\ bulks = <<>>
    /\ scanList = "initial"
    /\ sigNet = <<>>
    /\ feed = FreshFeed
    /\ chart = 0
    /\ creates = 0
    /\ event = Ev("load", 0, <<>>, "", NoX)

Init == variant \in Variants /\ Start

InitAuth == variant \in WithLogin /\ Start

-----------------------------------------------------------------------------
(* Effects.  A handler is a function from the effect built so far to the    *)
(* effect after it: later statements see earlier writes of the same run.    *)

Same ==
    [token |-> token, userId |-> userId, client |-> client, boot |-> boot,
     alertsList |-> alertsList, status |-> status, form |-> form, bulks |-> bulks,
     scanList |-> scanList, feed |-> feed, chart |-> chart, creates |-> creates,
     hash |-> hash, prefs |-> prefs, userWatchlist |-> userWatchlist, view |-> view,
     answering |-> 0,
     reqs |-> <<>>, sigReqs |-> <<>>, audio |-> 0, nav |-> ""]

\* Commit effect fx of a step; q and sq are net and sigNet without the
\* request the step answered (if any).
Apply(fx, q, sq, op, st, x) ==
    /\ variant' = variant
    /\ token' = fx.token
    /\ userId' = fx.userId
    /\ prefs' = fx.prefs
    /\ event' = Ev(op, st, fx.reqs \o fx.sigReqs, fx.nav, x)
    /\ IF fx.nav # ""
          THEN Unload(fx.nav)
          ELSE /\ page' = page
               /\ boot' = fx.boot
               /\ client' = fx.client
               /\ net' = Track(q, fx.reqs)
               /\ alertsList' = fx.alertsList
               /\ status' = fx.status
               /\ form' = fx.form
               /\ bulks' = fx.bulks
               /\ scanList' = fx.scanList
               /\ sigNet' = Track(sq, fx.sigReqs)
               /\ feed' = fx.feed
               /\ chart' = fx.chart
               /\ hash' = fx.hash
               /\ userWatchlist' = fx.userWatchlist
               /\ view' = fx.view
               /\ creates' = fx.creates

Send(fx, r) == [fx EXCEPT !.reqs = @ \o <<r>>]

-----------------------------------------------------------------------------
(* logout() of each variant *)

logout_S0(fx) == [fx EXCEPT !.token = None, !.nav = "reload"]

\* signOut({scope:'global'}) is started and not awaited.
logout_P3(fx) ==
    [fx EXCEPT !.token = None, !.userId = None,
               !.nav = IF page = "index" THEN "login.html" ELSE "reload"]

\* part_005: signOut() is started and not awaited.
logout_P5(fx) == [fx EXCEPT !.token = None, !.userId = None, !.nav = "login.html"]

logout_Dash(fx) == [fx EXCEPT !.token = None, !.userId = None, !.nav = "login.html"]

\* The last logout of static/api.js: localStorage.clear().
logout_AC(fx) ==
    [fx EXCEPT !.token = None, !.userId = None, !.prefs = NoPrefs, !.nav = "login.html"]

-----------------------------------------------------------------------------
(* Listing the alerts *)

MyAlertsReq(tok) == Req("my-alerts", "GET", tok, NoBody, "list", NoCap)

fetchAndDisplayAlerts_S0(fx) ==
    IF fx.token = None
       THEN [fx EXCEPT !.alertsList = "notLoggedIn"]
       ELSE Send([fx EXCEPT !.alertsList = "loading"], MyAlertsReq(fx.token))

fetchAndDisplayAlerts_P3(fx) ==
    IF page # "index" THEN fx                       \* no alertsList element
    ELSE IF fx.token = None \/ fx.userId = None
       THEN [fx EXCEPT !.alertsList = "notLoggedIn"]
       ELSE Send([fx EXCEPT !.alertsList = "loading"], MyAlertsReq(fx.token))

\* The token is read before the Telegram profile query is awaited.
fetchAndDisplayAlerts_Dash(fx) ==
    IF fx.token = None THEN fx
    ELSE IF fx.client /\ fx.userId # None
       THEN Send(fx, Req("users", "GET", "-", [NoBody EXCEPT !.user_id = fx.userId],
                         "list.profile", [NoCap EXCEPT !.token = fx.token]))
       ELSE Send(fx, MyAlertsReq(fx.token))

fetchAndDisplayAlerts_profile(fx, r) == Send(fx, MyAlertsReq(r.cap.token))

\* API.getMyAlerts of part_002 followed by refreshAlerts' rendering of [].
refreshAlerts_Bearer(fx) ==
    IF fx.token = None
       THEN [fx EXCEPT !.alertsList = "empty"]
       ELSE Send(fx, MyAlertsReq(fx.token))

\* API.getMyAlerts of static/api.js: guarded by the user id, no bearer.
refreshAlerts_UI(fx) ==
    IF fx.userId = None
       THEN [fx EXCEPT !.alertsList = "empty"]
       ELSE Send(fx, Req("my-alerts", "GET", "-",
                         [NoBody EXCEPT !.user_id = fx.userId], "list", NoCap))

ListAlerts(v, fx) ==
    CASE v = "S0" -> fetchAndDisplayAlerts_S0(fx)
      [] v = "P3" -> fetchAndDisplayAlerts_P3(fx)
      [] v = "P5" -> fetchAndDisplayAlerts_S0(fx)
      [] v \in Dash -> fetchAndDisplayAlerts_Dash(fx)
      [] v \in BearerAPI -> refreshAlerts_Bearer(fx)
      [] OTHER -> refreshAlerts_UI(fx)

Rendered(o) == IF o.rows THEN "rows" ELSE "empty"

fetchAndDisplayAlerts_S0_resp(fx, o) ==
    IF o.neterr THEN [fx EXCEPT !.alertsList = "connError"]
    ELSE IF o.status \in AuthFailure
       THEN logout_S0([fx EXCEPT !.alertsList = "authFailed"])
    ELSE IF ~o.json THEN [fx EXCEPT !.alertsList = "connError"]
    ELSE IF o.status # 200 THEN [fx EXCEPT !.alertsList = "error"]
    ELSE [fx EXCEPT !.alertsList = Rendered(o)]

fetchAndDisplayAlerts_P3_resp(fx, o) ==
    IF o.neterr THEN [fx EXCEPT !.alertsList = "connError"]
    ELSE IF o.status \in AuthFailure
       THEN [fx EXCEPT !.alertsList = "authFailed", !.token = None,
                       !.userId = None, !.nav = "login.html"]
    ELSE IF ~o.json THEN [fx EXCEPT !.alertsList = "connError"]
    ELSE IF o.status # 200 THEN [fx EXCEPT !.alertsList = "error"]
    ELSE [fx EXCEPT !.alertsList = Rendered(o)]

\* No status check: the body is rendered whatever the status.  An error
\* object has no length; alerts.map then throws into the catch (SS), or
\* alerts.error selects the empty state (AB, AC).
fetchAndDisplayAlerts_Dash_resp(v, fx, o) ==
    IF o.neterr \/ ~o.json THEN fx
    ELSE IF o.status # 200
       THEN IF v = "SS" THEN fx ELSE [fx EXCEPT !.alertsList = "empty"]
    ELSE [fx EXCEPT !.alertsList = Rendered(o)]

\* API.getMyAlerts returns [] on a rejected fetch; refreshAlerts shows the
\* empty state for [] and for an error object.
refreshAlerts_resp(fx, o) ==
    IF o.neterr \/ ~o.json \/ o.status # 200
       THEN [fx EXCEPT !.alertsList = "empty"]
       ELSE [fx EXCEPT !.alertsList = Rendered(o)]

ListResp(v, fx, o) ==
    CASE v = "S0" -> fetchAndDisplayAlerts_S0_resp(fx, o)
      [] v = "P3" -> fetchAndDisplayAlerts_P3_resp(fx, o)
      [] v \in Dash -> fetchAndDisplayAlerts_Dash_resp(v, fx, o)
      [] OTHER -> refreshAlerts_resp(fx, o)

-----------------------------------------------------------------------------
(* Deleting an alert *)

DeleteBody(id, uid) == [NoBody EXCEPT !.alert_id = id, !.user_id = uid]

deleteAlert_S0(fx, id, confirmed) ==
    IF fx.token = None \/ ~confirmed THEN fx
    ELSE Send(fx, Req("delete-alert", "POST", fx.token, DeleteBody(id, NoKey),
                      "delete", NoCap))

deleteAlert_P3(fx, id, confirmed) ==
    IF fx.token = None \/ fx.userId = None \/ ~confirmed THEN fx
    ELSE Send(fx, Req("delete-alert", "POST", fx.token, DeleteBody(id, fx.userId),
                      "delete", NoCap))

\* confirm() first, then the token is read and sent unchecked.
deleteAlert_Dash(fx, id, confirmed) ==
    IF ~confirmed THEN fx
    ELSE Send(fx, Req("delete-alert", "POST", fx.token, DeleteBody(id, NoKey),
                      "delete", NoCap))

\* handleDeleteAlert with API.deleteAlert of part_002.
handleDeleteAlert_Bearer(fx, id, confirmed) ==
    IF ~confirmed THEN fx
    ELSE Send(fx, Req("delete-alert", "POST", fx.token, DeleteBody(id, NoKey),
                      "delete", NoCap))

\* handleDeleteAlert with API.deleteAlert of static/api.js:
\* fetch(`/api/delete-alert/${alertId}`, {method: 'DELETE'}).
handleDeleteAlert_UI(fx, id, confirmed) ==
    IF ~confirmed THEN fx
    ELSE Send(fx, Req("delete-alert/id", "DELETE", "-", DeleteBody(id, NoKey),
                      "delete", NoCap))

DeleteCall(v, fx, id, confirmed) ==
    CASE v = "S0" -> deleteAlert_S0(fx, id, confirmed)
      [] v = "P3" -> deleteAlert_P3(fx, id, confirmed)
      [] v \in Dash -> deleteAlert_Dash(fx, id, confirmed)
      [] v \in BearerAPI -> handleDeleteAlert_Bearer(fx, id, confirmed)
      [] OTHER -> handleDeleteAlert_UI(fx, id, confirmed)

\* S0, P3: await response.json(), then re-fetch only if response.ok.
deleteAlert_Legacy_resp(v, fx, o) ==
    IF Ok(o) /\ o.json THEN ListAlerts(v, fx) ELSE fx

deleteAlert_Dash_resp(fx, o) ==
    IF Ok(o) THEN fetchAndDisplayAlerts_Dash(fx) ELSE fx

\* API.deleteAlert resolves to true or false; refreshAlerts() follows.
handleDeleteAlert_resp(v, fx, o) == ListAlerts(v, fx)

DeleteResp(v, fx, o) ==
    CASE v \in Legacy -> deleteAlert_Legacy_resp(v, fx, o)
      [] v \in Dash -> deleteAlert_Dash_resp(fx, o)
      [] OTHER -> handleDeleteAlert_resp(v, fx, o)

-----------------------------------------------------------------------------
(* Creating one alert *)

AlertTypes == {"PRICE_TARGET", "GOLDEN_CROSS"}     \* options of the type select
Prices == {"", "100"}                              \* value of the price input

CreateReq(auth, body) == Req("create-alert", "POST", auth, body, "create", NoCap)

\* S0, P3: the phrase box.  withUid: part_003 adds user_id to the body.
createAlertFromDashboard(v, fx, phrase) ==
    IF fx.token = None \/ (v = "P3" /\ fx.userId = None) THEN fx
    ELSE IF phrase = "" THEN [fx EXCEPT !.status = "needPhrase"]
    ELSE Send([fx EXCEPT !.status = "sending"],
              CreateReq(fx.token,
                        [NoBody EXCEPT !.signal_type = "phrase",
                                       !.user_id = IF v = "P3" THEN fx.userId ELSE NoKey]))

createAlertFromDashboard_resp(v, fx, o) ==
    IF o.neterr \/ ~o.json THEN [fx EXCEPT !.status = "connError"]
    ELSE IF o.status = 200 THEN ListAlerts(v, [fx EXCEPT !.status = "created"])
    ELSE IF o.status \in AuthFailure
       THEN [(IF v = "S0" THEN logout_S0(fx) ELSE logout_P3(fx)) EXCEPT !.status = "error"]
    ELSE [fx EXCEPT !.status = "error"]

FormBody(type) ==
    [NoBody EXCEPT !.asset = "BTC/USDT", !.timeframe = "1h", !.signal_type = type]

\* SS: createForm.onsubmit.
createForm_SS(fx, type) ==
    IF fx.token = None THEN fx ELSE Send(fx, CreateReq(fx.token, FormBody(type)))

\* A form handler that does not fetch the list again.
createForm_SS_stale_resp(fx, o) == fx

createForm_SS_resp(fx, o) ==
    IF Ok(o) THEN fetchAndDisplayAlerts_Dash(fx) ELSE fx

\* AB: createForm.onsubmit with the status div.
createForm_AB(fx, type) ==
    IF fx.token = None THEN fx
    ELSE Send([fx EXCEPT !.status = "activating"], CreateReq(fx.token, FormBody(type)))

createForm_AB_resp(fx, o) ==
    IF o.neterr \/ ~o.json THEN [fx EXCEPT !.status = "networkError"]
    ELSE IF o.status = 200 THEN fetchAndDisplayAlerts_Dash([fx EXCEPT !.status = "active"])
    ELSE [fx EXCEPT !.status = "failed"]

\* AC: createForm.onsubmit, `Bearer ${getToken()}` whatever getToken() is.
createForm_AC(fx, type) ==
    Send([fx EXCEPT !.status = "activating"], CreateReq(fx.token, FormBody(type)))

createForm_AC_resp(fx, o) ==
    IF o.neterr \/ ~o.json THEN fx
    ELSE IF o.status = 429 THEN [fx EXCEPT !.status = "message"]
    ELSE IF o.status = 200 THEN fetchAndDisplayAlerts_Dash([fx EXCEPT !.status = "active"])
    ELSE fx

\* P2, P1: form.onsubmit -> API.createAlert of part_002.
\* target_price: document.getElementById('alertPrice').value || null
createForm_Mod(fx, type, price) ==
    Send([fx EXCEPT !.status = "activating"],
         CreateReq(fx.token,
                   [FormBody(type) EXCEPT !.target_price = IF price = "" THEN None ELSE price]))

\* res.success of API.createAlert's result; o.flag: the body has success: true.
CreateSucceeded(o) == ~o.neterr /\ o.json /\ o.flag

createForm_Mod_resp(v, fx, o) ==
    IF CreateSucceeded(o)
       THEN refreshAlerts_Bearer([fx EXCEPT !.status = "active"])
       ELSE [fx EXCEPT !.status = "error"]

\* togglePriceInput (part_002) makes the price input required while the
\* type is PRICE_TARGET; the browser does not submit a form whose required
\* input is empty.  part_001 has no togglePriceInput.
SubmitBlocked(v, type, price) == v = "P2" /\ type = "PRICE_TARGET" /\ price = ""

CreateCall(v, fx, type, price, phrase) ==
    CASE v \in Legacy -> createAlertFromDashboard(v, fx, phrase)
      [] v = "SS" -> createForm_SS(fx, type)
      [] v = "AB" -> createForm_AB(fx, type)
      [] v = "AC" -> createForm_AC(fx, type)
      [] OTHER -> createForm_Mod(fx, type, price)

CreateResp(v, fx, o) ==
    CASE v \in Legacy -> createAlertFromDashboard_resp(v, fx, o)
      [] v = "SS" -> createForm_SS_resp(fx, o)
      [] v = "AB" -> createForm_AB_resp(fx, o)
      [] v = "AC" -> createForm_AC_resp(fx, o)
      [] OTHER -> createForm_Mod_resp(v, fx, o)

-----------------------------------------------------------------------------
(* Bulk creation (part_001, static/ui.js) *)

BulkVariants == {"P1", "UI"}

CoinNames == <<"BTC/USDT", "ETH/USDT", "SOL/USDT", "XRP/USDT">>
TFNames == <<"15m", "1h", "4h", "1d">>
Coins == 1..NumCoins
TFs == 1..NumTFs

\* The checked boxes in document order.
RECURSIVE Checked(_, _)
Checked(sel, n) ==
    IF n = 0 THEN <<>>
    ELSE IF n \in sel THEN Append(Checked(sel, n - 1), n) ELSE Checked(sel, n - 1)

\* A loop that pairs every asset with the first timeframe only.
PairAt_firstTimeframe(b, k) ==
    LET as == Checked(b.assets, NumCoins)
        ts == Checked(b.tfs, NumTFs)
    IN  <<as[((k - 1) \div Len(ts)) + 1], ts[1]>>

\* for (asset of selectedAssets) for (tf of selectedTFs): the k-th pair.
PairAt(b, k) ==
    LET as == Checked(b.assets, NumCoins)
        ts == Checked(b.tfs, NumTFs)
    IN  <<as[((k - 1) \div Len(ts)) + 1], ts[((k - 1) % Len(ts)) + 1]>>

Total(b) == Cardinality(b.assets) * Cardinality(b.tfs)

\* One invocation of submitBulkAlerts.  idx: the pair the loop is at.
\* attached: its btn / progress are still the elements in the document.
\* calls, issued: the API.createAlert calls made and the pairs for which a
\* request was sent, in order.
NewBulk(assets, tfs, type, price) ==
    [assets |-> assets, tfs |-> tfs, type |-> type, price |-> price, idx |-> 1,
     successCount |-> 0, calls |-> 0, issued |-> <<>>, attached |-> TRUE,
     phase |-> "running", report |-> NoText]

SetProgress(fx, n, text) ==
    IF fx.bulks[n].attached THEN [fx EXCEPT !.form.progressText = text] ELSE fx

BulkReq(v, fx, b, n) ==
    LET pr == PairAt(b, b.idx)
        body == [NoBody EXCEPT !.asset = CoinNames[pr[1]], !.timeframe = TFNames[pr[2]],
                               !.signal_type = b.type,
                               !.target_price = IF b.price = "" THEN None ELSE b.price,
                               !.user_id = IF v = "UI" THEN fx.userId ELSE "-"]
    IN  Req("create-alert", "POST", IF v = "UI" THEN "-" ELSE fx.token, body,
            "bulk", [NoCap EXCEPT !.bulk = n])

\* The report after the loop.
BulkReport(v, b) ==
    IF v = "P1" THEN Text("created of total", b.successCount, Total(b))
                ELSE Text("created", b.successCount, 0)

\* The loop of submitBulkAlerts, from the pair bulks[n].idx up to the next
\* await that suspends.  API.createAlert of static/api.js answers
\* {success: false} without a request when no user id is stored.
RECURSIVE BulkLoop(_, _, _)
BulkLoop(v, fx, n) ==
    LET b == fx.bulks[n] IN
    IF b.idx > Total(b)
       THEN SetProgress([fx EXCEPT !.bulks[n].phase = "reported",
                                   !.bulks[n].report = BulkReport(v, b)],
                        n, BulkReport(v, b))
    ELSE LET st == SetProgress(fx, n, Text("creating", b.idx, 0)) IN
         IF v = "UI" /\ fx.userId = None
            THEN BulkLoop(v, [st EXCEPT !.bulks[n].calls = @ + 1,
                                        !.bulks[n].idx = @ + 1], n)
            ELSE Send([st EXCEPT !.bulks[n].calls = @ + 1,
                                 !.bulks[n].issued = Append(@, PairAt(b, b.idx))],
                      BulkReq(v, fx, b, n))

\* A validation that looks at the assets only.
BulkValid_assetsOnly(assets, tfs, type, price) ==
    /\ assets # {}
    /\ ~(type = "PRICE_TARGET" /\ price = "")

BulkValid(assets, tfs, type, price) ==
    /\ assets # {} /\ tfs # {}
    /\ ~(type = "PRICE_TARGET" /\ price = "")

\* A loop that does not await its first call before it makes the second.
submitBulkAlerts_unawaited(v, fx, assets, tfs, type, price) ==
    IF ~BulkValid(assets, tfs, type, price) THEN fx
    ELSE LET n == Len(fx.bulks) + 1
             first == BulkLoop(v, [fx EXCEPT !.form.btnDisabled = TRUE,
                                             !.form.btnText = "Processing...",
                                             !.form.progressShown = TRUE,
                                             !.bulks = Append(@, NewBulk(assets, tfs, type, price))],
                               n)
         IN  IF first.bulks[n].idx < Total(first.bulks[n])
                THEN BulkLoop(v, [first EXCEPT !.bulks[n].idx = @ + 1], n)
                ELSE first

submitBulkAlerts(v, fx, assets, tfs, type, price) ==
    IF ~BulkValid(assets, tfs, type, price) THEN fx
    ELSE BulkLoop(v,
                  [fx EXCEPT !.form.btnDisabled = TRUE, !.form.btnText = "Processing...",
                             !.form.progressShown = TRUE,
                             !.bulks = Append(@, NewBulk(assets, tfs, type, price))],
                  Len(fx.bulks) + 1)

\* const res = await API.createAlert(payload); if (res.success) successCount++;
submitBulkAlerts_resp(v, fx, n, o) ==
    BulkLoop(v, [fx EXCEPT !.bulks[n].successCount = IF CreateSucceeded(o) THEN @ + 1 ELSE @,
                           !.bulks[n].idx = @ + 1], n)

Detach(bs) == [k \in 1..Len(bs) |-> [bs[k] EXCEPT !.attached = FALSE]]

\* The form replaces whatever tv_chart_container held; in part_001 that is
\* the container of the chart widgets, static/ui.js builds its charts in
\* tradingview_chart_area.
openCreateAlertModal(v, fx) ==
    [fx EXCEPT !.form = [FreshForm EXCEPT !.present = TRUE, !.modalOpen = TRUE],
               !.bulks = Detach(@),
               !.chart = IF v = "P1" THEN 0 ELSE @]

\* part_001 and part_002 empty tv_chart_container; static/ui.js only hides
\* the modal.
closeModal(v, fx) ==
    IF v \in BearerAPI
       THEN [fx EXCEPT !.form = FreshForm, !.bulks = Detach(@), !.chart = 0]
       ELSE [fx EXCEPT !.form.modalOpen = FALSE]

\* loadChartView of static/ui.js: tradingview_chart_area is emptied, then
\* the widget is built (the TradingView library is taken to be loaded).
\* A chart view that is laid over the signal view.
loadChartView_overlay(fx) ==
    [fx EXCEPT !.view.chart = "flex", !.view.ai = "block", !.chart = 1]

loadChartView(fx) ==
    [fx EXCEPT !.view.chart = "flex", !.view.signal = "none",
               !.view.ai = "block", !.view.alerts = "none",
               !.chart = 1]

\* openChart of part_001: shows the modal, empties tv_chart_container (the
\* bulk form goes with it), then builds the widget.
openChart_P1(fx) ==
    [fx EXCEPT !.form = [FreshForm EXCEPT !.modalOpen = TRUE],
               !.bulks = Detach(@), !.chart = 1]

\* openChart of part_002: shows the modal and builds the widget in
\* tv_chart_container as it is.
openChart_P2(fx) == [fx EXCEPT !.form.modalOpen = TRUE, !.chart = @ + 1]

openChart(v, fx) ==
    CASE v = "P1" -> openChart_P1(fx)
      [] v = "P2" -> openChart_P2(fx)
      [] OTHER -> loadChartView(fx)

\* The setTimeout(..., 1500) callback of submitBulkAlerts.
submitBulkAlerts_timeout(v, fx, n) ==
    LET closed == closeModal(v, [fx EXCEPT !.bulks[n].phase = "finished"])
        listed == ListAlerts(v, closed)
    IN  IF v = "UI" /\ listed.bulks[n].attached
           THEN [listed EXCEPT !.form.btnDisabled = FALSE, !.form.btnText = "Create Alerts"]
           ELSE listed

-----------------------------------------------------------------------------
(* Signal feed *)

SignalTypes == {"ALL", "BULL"}        \* data-type of the nav items

SignalsReq(type) ==
    Req("signals", "GET", "-", [NoBody EXCEPT !.signal_type = type], "signals", NoCap)

\* Every fetch of /api/signals gets the next number.
SendSig(fx, r) ==
    [fx EXCEPT !.sigReqs = @ \o <<[r EXCEPT !.cap.seq = fx.feed.started + 1]>>,
               !.feed.started = @ + 1]

\* The list is rewritten from the answer that is being handled.
Show(fx, what) == [fx EXCEPT !.scanList = what, !.feed.shown = fx.answering]

\* SS, AB, AC: no loading row.
fetchMarketSignals(fx, type) == SendSig(fx, SignalsReq(type))

\* P2, P1, UI: loading row, then API.getSignals.
refreshSignals(fx, type) == SendSig([fx EXCEPT !.scanList = "loading"], SignalsReq(type))

FeedStart(v, fx, type) ==
    IF v \in Dash THEN fetchMarketSignals(fx, type) ELSE refreshSignals(fx, type)

\* SS, AB, AC.  A rejected fetch, an unparsable body and an error object
\* (scans.map is not a function) all end in the catch.
fetchMarketSignals_resp(fx, o) ==
    IF o.neterr \/ ~o.json \/ o.status # 200 THEN fx
    ELSE IF ~o.rows THEN Show(fx, "empty")
    ELSE Show(fx, "rows")

\* A feed that plays the cue before it looks at the number of records.
refreshSignals_AudioFirst_resp(fx, o) ==
    IF o.neterr \/ ~o.json \/ o.status # 200
       THEN Show(fx, "empty")
       ELSE [Show(fx, IF o.rows THEN "rows" ELSE "empty")
                 EXCEPT !.audio = IF o.flag THEN 1 ELSE 0]

\* P2, P1.  o.flag: the first record is less than a minute old.
refreshSignals_Audio_resp(fx, o) ==
    IF o.neterr \/ ~o.json \/ o.status # 200 \/ ~o.rows
       THEN Show(fx, "empty")
       ELSE [Show(fx, "rows") EXCEPT !.audio = IF o.flag THEN 1 ELSE 0]

\* UI.
refreshSignals_UI_resp(fx, o) ==
    IF o.neterr \/ ~o.json \/ o.status # 200 \/ ~o.rows
       THEN Show(fx, "empty")
       ELSE Show(fx, "rows")

\* data-type of the strategy nav items of static/ui.js.
Strategies == {"STRATEGY:bullish-200ma-rsi"}

\* refreshStrategies: the loader goes into strategiesContainer and
\* API.getStrategies fetches /api/strategies.
refreshStrategies(fx) ==
    Send(fx, Req("strategies", "GET", "-", NoBody, "strategies", NoCap))

\* static/ui.js loadSignalView: the signal view replaces the chart view;
\* a strategy shows strategiesContainer and calls refreshStrategies(slug), a
\* signal category shows mainTableContainer and calls refreshSignals(type);
\* then refreshAlerts().
loadSignalView(fx, type) ==
    LET shown == [fx EXCEPT !.view.chart = "none", !.view.signal = "flex",
                            !.view.ai = "none", !.view.alerts = "block",
                            !.feed.active = type]
    IN  IF type \in Strategies
           THEN refreshAlerts_UI(refreshStrategies(
                    [shown EXCEPT !.view.mainTable = "none", !.view.strategies = "block"]))
           ELSE refreshAlerts_UI(refreshSignals(
                    [shown EXCEPT !.view.mainTable = "block", !.view.strategies = "none"],
                    type))

\* if (tabName === 'watchlist') loadChartView(currentSymbol);
\* else loadSignalView('ALL');
switchSidebarTab(fx, tabName) ==
    IF tabName = "watchlist" THEN loadChartView(fx) ELSE loadSignalView(fx, "ALL")

onTimeframeChange(fx) == loadChartView(fx)

\* The click listener of a nav item: the item becomes the active one and
\* its category is fetched.
navItemClick(v, fx, type) ==
    IF v = "UI" THEN loadSignalView(fx, type)
                ELSE FeedStart(v, [fx EXCEPT !.feed.active = type], type)

\* A refresh timer that always asks for every category.
refreshTimer_all(v, fx) == FeedStart(v, fx, "ALL")

\* The setInterval(..., 60000) callback of the dashboard scripts: the
\* category of the active nav item is fetched again.
refreshTimer(v, fx) == FeedStart(v, fx, fx.feed.active)

FeedResp(v, fx, o) ==
    CASE v \in Dash -> fetchMarketSignals_resp(fx, o)
      [] v \in BearerAPI -> refreshSignals_Audio_resp(fx, o)
      [] OTHER -> refreshSignals_UI_resp(fx, o)

-----------------------------------------------------------------------------
(* Watchlist and theme (static/ui.js, static/api.js) *)

Symbols == {"BTCUSDT", "ETHUSDT", "PEPEUSDT"}
DEFAULT_WATCHLIST == <<"BTCUSDT", "ETHUSDT">>
Typed == {"PEPE", "ETH", "BTCUSDT"}      \* what is entered in #watchlistInput

\* if (!symbol.toUpperCase().includes('USDT')) symbol += 'USDT';
WithUSDT(symbol) ==
    CASE symbol = "PEPE" -> "PEPEUSDT"
      [] symbol = "ETH" -> "ETHUSDT"
      [] OTHER -> symbol

Has(list, s) == \E i \in 1..Len(list) : list[i] = s
Without(list, s) == SelectSeq(list, LAMBDA e : e # s)

\* JSON.parse(localStorage.getItem(WATCHLIST_KEY) || '[]')
getWatchlist(fx) == IF fx.prefs.watchlist = None THEN <<>> ELSE fx.prefs.watchlist

\* getWatchlist().length ? getWatchlist() : DEFAULT_WATCHLIST
renderWatchlist(fx) ==
    [fx EXCEPT !.userWatchlist = IF Len(getWatchlist(fx)) # 0 THEN getWatchlist(fx)
                                                              ELSE DEFAULT_WATCHLIST]

addToWatchlist(fx, typed) ==
    LET symbol == WithUSDT(typed)
        list == getWatchlist(fx)
    IN  IF Has(list, symbol) THEN fx
        ELSE renderWatchlist([fx EXCEPT !.prefs.watchlist = Append(list, symbol)])

removeFromWatchlist(fx, symbol) ==
    renderWatchlist([fx EXCEPT !.prefs.watchlist = Without(getWatchlist(fx), symbol)])

\* The theme button: data-theme starts as the stored theme or 'dark'.
themeToggle(fx) ==
    LET current == IF fx.prefs.theme = None THEN "dark" ELSE fx.prefs.theme
    IN  [fx EXCEPT !.prefs.theme = IF current = "dark" THEN "light" ELSE "dark"]

-----------------------------------------------------------------------------
(* Session resolution at page load *)

ConfigReq == Req("config", "GET", "-", NoBody, "config", NoCap)
GetSessionReq == Req("auth.getSession", "SDK", "-", NoBody, "session", NoCap)
GetUserReq(v, tok) ==
    Req(IF v = "AB" THEN "auth.getUser" ELSE "auth.setSession", "SDK", tok, NoBody,
        "user", NoCap)

\* part_003: the user id is written only when one is given.
saveToken(fx, tok, uid) ==
    IF uid # None THEN [fx EXCEPT !.token = tok, !.userId = uid]
                  ELSE [fx EXCEPT !.token = tok]

\* A variant that keeps a stored token in preference to the session.
SetBoth_keepStored(fx, s) ==
    IF fx.token # None THEN fx
    ELSE [fx EXCEPT !.token = s.access_token, !.userId = s.user]

SetBoth(fx, s) == [fx EXCEPT !.token = s.access_token, !.userId = s.user]

\* The rest of the DOMContentLoaded handler once the session is settled.
BootTail(v, fx) ==
    LET done == [fx EXCEPT !.boot = "done"] IN
    CASE v \in WithLogin -> IF page = "index" THEN ListAlerts(v, done) ELSE done
      [] v \in Dash -> fetchAndDisplayAlerts_Dash(fetchMarketSignals(done, "ALL"))
      [] v \in BearerAPI -> refreshAlerts_Bearer(refreshSignals(done, "ALL"))
      [] OTHER -> loadChartView(renderWatchlist(done))   \* static/ui.js 440-443

DOMContentLoaded(v, fx) ==
    IF v = "S0" THEN BootTail(v, fx)
    ELSE Send([fx EXCEPT !.boot = "config"], ConfigReq)

\* A variant that asks the auth client for a session whatever the
\* configuration answer was.
initializeSupabase_always(v, fx, o) ==
    Send([fx EXCEPT !.client = TRUE, !.boot = "session"], GetSessionReq)

\* fetchConfig / initializeSupabase / initAuth after /api/config answered.
initializeSupabase(v, fx, o) ==
    LET good == Ok(o) /\ o.json /\ o.flag
        made == [fx EXCEPT !.client = good]
    IN  IF v \in Mod /\ (o.neterr \/ ~o.json) THEN BootTail(v, fx)
        ELSE IF ~good THEN BootTail(v, made)
        ELSE Send([made EXCEPT !.boot = "session"], GetSessionReq)

\* A session processing that leaves for index.html whenever it finds a
\* session.
checkSupabaseSession_P3_always(fx, s) ==
    BootTail("P3", [saveToken(fx, s.access_token, s.user)
                        EXCEPT !.hash = FALSE, !.nav = "index.html"])

\* part_003 with a session: after an OAuth return (a hash in the URL) the
\* hash is cleared and the page replaced by index.html; the handler's
\* remaining statements run before the document goes.
checkSupabaseSession_P3(fx, s) ==
    LET saved == saveToken(fx, s.access_token, s.user) IN
    IF fx.hash
       THEN BootTail("P3", [saved EXCEPT !.hash = FALSE, !.nav = "index.html"])
       ELSE BootTail("P3", fetchAndDisplayAlerts_P3(saved))

\* part_005 with a session: the hash is cleared whatever the page; only the
\* login page is left for index.html.  sessionProcessed: the handler does
\* not list the alerts a second time.
checkSupabaseSession_P5(fx, s) ==
    LET saved == [SetBoth(fx, s) EXCEPT !.hash = FALSE, !.boot = "done"] IN
    IF page = "login" THEN [saved EXCEPT !.nav = "index.html"]
                      ELSE ListAlerts("P5", saved)

\* checkSupabaseSession / initAuth after getSession() resolved with s.
checkSupabaseSession(v, fx, s) ==
    IF s # NoSession
       THEN CASE v = "P3" -> checkSupabaseSession_P3(fx, s)
              [] v = "P5" -> checkSupabaseSession_P5(fx, s)
              [] OTHER -> BootTail(v, SetBoth(fx, s))
    ELSE IF v \in {"AB", "AC"} /\ fx.token # None
       THEN Send([fx EXCEPT !.boot = "user"], GetUserReq(v, fx.token))
    ELSE BootTail(v, fx)

\* AB: getUser(token); AC: setSession({access_token: token, ...}).
checkSupabaseSession_user(v, fx, s) ==
    IF s # NoSession THEN BootTail(v, [fx EXCEPT !.userId = s.user])
                     ELSE BootTail(v, fx)

-----------------------------------------------------------------------------
(* Login, logout, auth events *)

LoginReq == Req("login", "POST", "-", NoBody, "login", NoCap)

\* A login that takes any parsed answer for a success.
handleLogin_anyStatus_resp(v, fx, o, tok) ==
    IF o.neterr \/ ~o.json THEN fx
    ELSE [fx EXCEPT !.token = tok, !.nav = "index.html"]

\* o.flag: the body carries user_id.
handleLogin_resp(v, fx, o, tok) ==
    IF o.neterr \/ ~o.json \/ o.status # 200 THEN fx
    ELSE IF v = "S0" THEN [fx EXCEPT !.token = tok, !.nav = "index.html"]
    ELSE IF v = "P5"                 \* saveSession(token, undefined)
       THEN [fx EXCEPT !.token = tok, !.nav = "index.html",
                       !.userId = IF o.flag THEN UserOf(tok) ELSE "undefined"]
    ELSE [saveToken(fx, tok, IF o.flag THEN UserOf(tok) ELSE None)
              EXCEPT !.nav = "index.html"]

SignOutReq == Req("auth.signOut", "SDK", "-", NoBody, "signOut", NoCap)

\* auth.js logout(): localStorage.clear() after the awaited signOut().
logout_auth_clear(fx) ==
    [fx EXCEPT !.token = None, !.userId = None, !.prefs = NoPrefs, !.nav = "/"]

logout_auth(fx) == IF fx.client THEN Send(fx, SignOutReq) ELSE logout_auth_clear(fx)

Logout(v, fx) ==
    CASE v = "S0" -> logout_S0(fx)
      [] v = "P3" -> logout_P3(fx)
      [] v = "P5" -> logout_P5(fx)
      [] v = "AC" -> logout_AC(fx)
      [] v \in {"SS", "AB"} -> logout_Dash(fx)
      [] OTHER -> logout_auth(fx)

\* auth.js onAuthStateChange listener.
onAuthStateChange(v, fx, ev, s) ==
    IF ev = "SIGNED_IN" /\ s # NoSession THEN ListAlerts(v, SetBoth(fx, s))
    ELSE IF ev = "SIGNED_OUT" THEN [fx EXCEPT !.token = None, !.userId = None]
    ELSE fx

-----------------------------------------------------------------------------
(* Actions: page load *)

ScriptRuns == variant \in WithLogin \/ page = "index"

Boot ==
    /\ boot = "pending"
    /\ ScriptRuns
    /\ Apply(DOMContentLoaded(variant, Same), net, sigNet, "DOMContentLoaded", 0, NoX)

ConfigResp ==
    \E i \in 1..Len(net), o \in Outcomes :
        /\ net[i].k = "config"
        /\ Apply(initializeSupabase(variant, Same, o), RemoveAt(net, i), sigNet,
                 "config", o.status,
                 [Answered(net[i]) EXCEPT !.success = Ok(o) /\ o.json /\ o.flag])

SessionResp ==
    \E i \in 1..Len(net), s \in Sessions \cup {NoSession} :
        /\ net[i].k = "session"
        /\ Apply(checkSupabaseSession(variant, Same, s), RemoveAt(net, i), sigNet,
                 "getSession", 0, [Answered(net[i]) EXCEPT !.session = s])

UserResp ==
    \E i \in 1..Len(net), valid \in BOOLEAN :
        /\ net[i].k = "user"
        /\ LET s == IF valid THEN [access_token |-> net[i].auth, user |-> UserOf(net[i].auth)]
                             ELSE NoSession
           IN  Apply(checkSupabaseSession_user(variant, Same, s), RemoveAt(net, i), sigNet,
                     "getUser", 0, [Answered(net[i]) EXCEPT !.session = s])

-----------------------------------------------------------------------------
(* Actions: session *)

\* if (!email || !password) return;
handleLogin(fx, email, password) ==
    IF email = "" \/ password = "" THEN fx ELSE Send(fx, LoginReq)

LoginClick ==
    /\ variant \in WithLogin
    /\ page = "login"
    /\ boot = "done"
    /\ \E email \in {"", "a@b.c"}, password \in {"", "pw"} :
          Apply(handleLogin(Same, email, password), net, sigNet,
                IF email = "" \/ password = "" THEN "handleLogin: empty" ELSE "handleLogin",
                0, NoX)

\* The access token of the answer is recorded with the step.
LoginResp ==
    \E i \in 1..Len(net), o \in Outcomes, tok \in Tokens :
        /\ net[i].k = "login"
        /\ Apply(handleLogin_resp(variant, Same, o, tok), RemoveAt(net, i), sigNet,
                 "handleLogin response", o.status,
                 [Answered(net[i]) EXCEPT !.session = [access_token |-> tok,
                                                       user |-> UserOf(tok)],
                                          !.success = Ok(o) /\ o.json])

\* handleGoogleLogin: signInWithOAuth answers with the provider's URL, the
\* page goes there, and the provider sends the browser back to
\* redirectTo = /index.html with the session in the URL hash.  Without a
\* client, or on an error, the page stays.
GoogleLogin ==
    /\ variant \in {"P3", "P5"}
    /\ page = "login"
    /\ boot = "done"
    /\ \E back \in BOOLEAN :
          IF client /\ back
             THEN /\ Load("index.html", TRUE)
                  /\ event' = Ev("OAuth return", 0, <<>>, "index.html", NoX)
                  /\ UNCHANGED <<variant, token, userId, prefs>>
             ELSE Apply(Same, net, sigNet, "handleGoogleLogin", 0, NoX)

\* The Logout link is the one updateAuthStatusUI / updateAuthButton renders
\* while a token is stored.
LogoutClick ==
    /\ boot = "done"
    /\ token # None
    /\ Apply(Logout(variant, Same), net, sigNet, "logout", 0, NoX)

SignOutResp ==
    \E i \in 1..Len(net) :
        /\ net[i].k = "signOut"
        /\ Apply(logout_auth_clear(Same), RemoveAt(net, i), sigNet,
                 "logout response", 0, Answered(net[i]))

SignedIn ==
    /\ variant \in Mod
    /\ client
    /\ \E s \in Sessions :
          Apply(onAuthStateChange(variant, Same, "SIGNED_IN", s), net, sigNet,
                "SIGNED_IN", 0, NoX)

SignedOut ==
    /\ variant \in Mod
    /\ client
    /\ Apply(onAuthStateChange(variant, Same, "SIGNED_OUT", NoSession), net, sigNet,
             "SIGNED_OUT", 0, NoX)

\* <a href="login.html">Login</a>, rendered while no token is stored.
FollowLoginLink ==
    /\ boot = "done"
    /\ page = "index"
    /\ token = None
    /\ Apply([Same EXCEPT !.nav = "login.html"], net, sigNet, "login link", 0, NoX)

\* Leaving the login page for the dashboard.
OpenDashboard ==
    /\ page = "login"
    /\ Apply([Same EXCEPT !.nav = "index.html"], net, sigNet, "open dashboard", 0, NoX)

-----------------------------------------------------------------------------
(* Actions: alert list and delete *)

ListRespond ==
    \E i \in 1..Len(net), o \in Outcomes :
        /\ net[i].k = "list"
        /\ Apply(ListResp(variant, Same, o), RemoveAt(net, i), sigNet,
                 "list response", o.status, Answered(net[i]))

ProfileResp ==
    \E i \in 1..Len(net) :
        /\ net[i].k = "list.profile"
        /\ Apply(fetchAndDisplayAlerts_profile(Same, net[i]), RemoveAt(net, i), sigNet,
                 "profile response", 0, Answered(net[i]))

\* A click on the delete button of a rendered row.  confirm() is reached
\* only past the session guard of S0 and P3.
ConfirmShown(v) ==
    v \notin Legacy \/ (token # None /\ (v = "P3" => userId # None))

DeleteClick ==
    /\ alertsList = "rows"
    /\ \E id \in AlertIds, confirmed \in BOOLEAN :
          Apply(DeleteCall(variant, Same, id, confirmed), net, sigNet, "delete", 0,
                X(id, ConfirmShown(variant) /\ confirmed, NoReq, FALSE, FALSE, 0))

DeleteRespond ==
    \E i \in 1..Len(net), o \in Outcomes :
        /\ net[i].k = "delete"
        /\ Apply(DeleteResp(variant, Same, o), RemoveAt(net, i), sigNet,
                 "delete response", o.status, Answered(net[i]))

-----------------------------------------------------------------------------
(* Actions: create *)

\* Inputs the page of a variant offers: the phrase box (S0, P3), the type
\* select (dashboards), type and price (P2, P1).
CreateInputs(v) ==
    CASE v \in Legacy -> {[type |-> "-", price |-> "", phrase |-> ph] : ph \in {"", "btc above 100"}}
      [] v \in Dash -> {[type |-> "GOLDEN_CROSS", price |-> "", phrase |-> ""]}
      [] OTHER -> {[type |-> t, price |-> pr, phrase |-> ""] : t \in AlertTypes, pr \in Prices}

CreateSubmit ==
    /\ boot = "done"
    /\ page = "index"
    /\ variant # "UI"
    /\ creates < MaxCreates
    /\ \E in \in CreateInputs(variant) :
          /\ ~SubmitBlocked(variant, in.type, in.price)
          /\ Apply(CreateCall(variant, [Same EXCEPT !.creates = @ + 1],
                              in.type, in.price, in.phrase),
                   net, sigNet, "create", 0, NoX)

\* What each generation takes for a successful create: status 200 with a
\* parsed body (S0, P3, AB, AC), response.ok (SS), res.success (P2, P1).
CreateAccepted(v, o) ==
    CASE v = "SS" -> Ok(o)
      [] v \in Mod -> CreateSucceeded(o)
      [] OTHER -> Ok(o) /\ o.json

CreateRespond ==
    \E i \in 1..Len(net), o \in Outcomes :
        /\ net[i].k = "create"
        /\ Apply(CreateResp(variant, Same, o), RemoveAt(net, i), sigNet,
                 "create response", o.status,
                 [Answered(net[i]) EXCEPT !.success = CreateAccepted(variant, o)])

-----------------------------------------------------------------------------
(* Actions: bulk modal *)

OpenModal ==
    /\ variant \in BulkVariants
    /\ page = "index"
    /\ Apply(openCreateAlertModal(variant, Same), net, sigNet, "open modal", 0, NoX)

CloseModal ==
    /\ variant \in Mod
    /\ form.modalOpen
    /\ Apply(closeModal(variant, Same), net, sigNet, "close modal", 0, NoX)

\* What the user submitted: nothing selected in one of the two groups, a
\* price alert without a price, or a complete form.
Submitted(assets, tfs, type, price) ==
    IF assets = {} \/ tfs = {} THEN "bulk submit: no selection"
    ELSE IF type = "PRICE_TARGET" /\ price = "" THEN "bulk submit: no price"
    ELSE "bulk submit"

\* A click on the enabled #btnSaveAlert of the open modal.
BulkSubmit ==
    /\ variant \in BulkVariants
    /\ form.present /\ form.modalOpen /\ ~form.btnDisabled
    /\ Len(bulks) < MaxBulks
    /\ \E assets \in SUBSET Coins, tfs \in SUBSET TFs, type \in AlertTypes, price \in Prices :
          Apply(submitBulkAlerts(variant, Same, assets, tfs, type, price), net, sigNet,
                Submitted(assets, tfs, type, price), 0,
                X(Len(bulks) + 1, FALSE, NoReq, FALSE, FALSE, 0))

BulkRespond ==
    \E i \in 1..Len(net), o \in Outcomes :
        /\ net[i].k = "bulk"
        /\ Apply(submitBulkAlerts_resp(variant, Same, net[i].cap.bulk, o),
                 RemoveAt(net, i), sigNet, "bulk response", o.status,
                 X(net[i].cap.bulk, FALSE, net[i], CreateSucceeded(o), FALSE, 0))

BulkTimeout ==
    \E n \in 1..Len(bulks) :
        /\ bulks[n].phase = "reported"
        /\ Apply(submitBulkAlerts_timeout(variant, Same, n), net, sigNet,
                 "bulk timeout", 0, X(n, FALSE, NoReq, FALSE, FALSE, 0))

-----------------------------------------------------------------------------
(* Actions: signal feed *)

\* A click on a sidebar nav item: fetchMarketSignals / refreshSignals /
\* loadSignalView with the item's data-type.  The listeners of the other
\* generations are attached at the end of the DOMContentLoaded handler.
CanFetch == feed.started < MaxFetches /\ Len(sigNet) < MaxInFlight

NavClick ==
    /\ boot = "done" \/ variant = "UI"
    /\ page = "index"
    /\ variant \notin Legacy
    /\ CanFetch
    /\ \E type \in SignalTypes :
          Apply(navItemClick(variant, Same, type), net, sigNet, "signals", 0,
                [NoX EXCEPT !.type = type])

\* An expiry of the 60 s interval the dashboard scripts set at the end of
\* their DOMContentLoaded handler.  part_001, part_002 and static/ui.js set
\* an interval for the price ticker only.
RefreshTimer ==
    /\ variant \in Dash
    /\ boot = "done"
    /\ page = "index"
    /\ CanFetch
    /\ Apply(refreshTimer(variant, Same), net, sigNet, "refresh timer", 0,
             [NoX EXCEPT !.type = feed.active])

\* o.flag of a non-empty answer: its first record is less than a minute old.
SignalsRespond ==
    \E i \in 1..Len(sigNet), o \in Outcomes :
        LET fx == FeedResp(variant, [Same EXCEPT !.answering = sigNet[i].cap.seq], o) IN
        Apply(fx, net, RemoveAt(sigNet, i), "signals response", o.status,
              [X(0, FALSE, sigNet[i], Ok(o) /\ o.json, o.rows, fx.audio)
                   EXCEPT !.fresh = o.flag])

\* A click on a rendered signal row: openChart / loadChartView.
OpenChart ==
    /\ variant \in Mod
    /\ page = "index"
    /\ scanList = "rows"
    /\ chart < MaxWidgets
    /\ Apply(openChart(variant, Same), net, sigNet, "open chart", 0, NoX)

-----------------------------------------------------------------------------
(* Actions: watchlist, theme and views *)

\* Enter in #watchlistInput.
AddToWatchlist ==
    /\ variant = "UI" /\ page = "index" /\ boot = "done"
    /\ Len(getWatchlist(Same)) < MaxWatchlist
    /\ \E typed \in Typed :
          Apply(addToWatchlist(Same, typed), net, sigNet, "addToWatchlist", 0,
                [NoX EXCEPT !.type = WithUSDT(typed)])

\* A click on the remove mark of a rendered watchlist item.
RemoveFromWatchlist ==
    /\ variant = "UI" /\ page = "index"
    /\ \E i \in 1..Len(userWatchlist) :
          Apply(removeFromWatchlist(Same, userWatchlist[i]), net, sigNet,
                "removeFromWatchlist", 0, [NoX EXCEPT !.type = userWatchlist[i]])

\* A click on #themeToggle (the dashboard scripts).
ThemeToggle ==
    /\ variant \in Dash /\ page = "index" /\ boot = "done"
    /\ Apply(themeToggle(Same), net, sigNet, "theme", 0, NoX)

\* A click on a rendered watchlist item: loadChartView(sym).
WatchlistClick ==
    /\ variant = "UI" /\ page = "index"
    /\ \E i \in 1..Len(userWatchlist) :
          Apply(loadChartView(Same), net, sigNet, "loadChartView", 0,
                [NoX EXCEPT !.type = userWatchlist[i]])

\* A click on the nav item of a strategy: loadSignalView('STRATEGY:slug').
StrategyClick ==
    /\ variant = "UI" /\ page = "index"
    /\ \E type \in Strategies :
          Apply(loadSignalView(Same, type), net, sigNet, "loadSignalView", 0,
                [NoX EXCEPT !.type = type])

\* A change of #ai-timeframe-select.
TimeframeChange ==
    /\ variant = "UI" /\ page = "index"
    /\ Apply(onTimeframeChange(Same), net, sigNet, "onTimeframeChange", 0, NoX)

SidebarTab ==
    /\ variant = "UI" /\ page = "index"
    /\ \E tabName \in {"watchlist", "signals"} :
          /\ tabName = "signals" => CanFetch
          /\ Apply(switchSidebarTab(Same, tabName), net, sigNet, "switchSidebarTab", 0,
                   [NoX EXCEPT !.type = tabName])

NextSession ==
    \/ Boot \/ ConfigResp \/ SessionResp \/ UserResp
    \/ LoginClick \/ LoginResp \/ LogoutClick \/ SignOutResp
    \/ SignedIn \/ SignedOut \/ FollowLoginLink \/ OpenDashboard

\* Session, alert list, delete and single create.
NextAlerts ==
    \/ NextSession
    \/ ListRespond \/ ProfileResp \/ DeleteClick \/ DeleteRespond
    \/ CreateSubmit \/ CreateRespond

\* The bulk modal with the page load, a sign-out and the list refresh it
\* ends with.
NextBulk ==
    \/ Boot \/ ConfigResp \/ SessionResp \/ SignedOut \/ ListRespond
    \/ OpenModal \/ CloseModal \/ BulkSubmit \/ BulkRespond \/ BulkTimeout

\* Single and bulk create with the page load and a sign-out; the fetches of
\* the alert list are started and stay unanswered.
NextCreate ==
    \/ Boot \/ ConfigResp \/ SessionResp \/ SignedOut
    \/ CreateSubmit \/ CreateRespond
    \/ OpenModal \/ BulkSubmit \/ BulkRespond \/ BulkTimeout

\* The signal feed with the page load.
NextFeed ==
    \/ Boot \/ ConfigResp \/ SessionResp \/ UserResp
    \/ NavClick \/ RefreshTimer \/ SignalsRespond

\* The chart launcher with the page load, the feed and the modal.
NextChart ==
    \/ Boot \/ ConfigResp \/ SessionResp \/ SignalsRespond
    \/ OpenModal \/ CloseModal \/ OpenChart

Next == NextAlerts \/ NextBulk \/ NextCreate \/ NextFeed \/ NextChart

Spec == Init /\ [][Next]_vars

SpecAlerts == Init /\ [][NextAlerts]_vars

SpecBulk == Init /\ [][NextBulk]_vars

SpecFeed == Init /\ [][NextFeed]_vars

SpecChart == Init /\ [][NextChart]_vars

SpecCreate == Init /\ [][NextCreate]_vars

\* The scripts with a login page (src/scripts.js, part_003, part_005):
\* page load, password login, OAuth return, logout.
NextAuth ==
    \/ Boot \/ ConfigResp \/ SessionResp
    \/ LoginClick \/ LoginResp \/ GoogleLogin
    \/ LogoutClick \/ FollowLoginLink \/ OpenDashboard

SpecAuth == InitAuth /\ [][NextAuth]_vars

\* Watchlist, theme, the views of static/ui.js, and logout.
NextTerminal ==
    \/ Boot \/ ConfigResp \/ SessionResp \/ UserResp
    \/ AddToWatchlist \/ RemoveFromWatchlist \/ ThemeToggle
    \/ WatchlistClick \/ StrategyClick \/ NavClick \/ TimeframeChange \/ SidebarTab
    \/ LogoutClick \/ SignOutResp

SpecTerminal == Init /\ [][NextTerminal]_vars

-----------------------------------------------------------------------------
(* Properties *)

ListOrCreateResponse == {"list response", "create response", "bulk response"}
MutatingEndpoints == {"create-alert", "delete-alert", "delete-alert/id"}
SentNow == {event.sent[i] : i \in 1..Len(event.sent)}

\* C1: whenever a 401 or 422 answer to a list, single-create or bulk-create
\* request has been handled, the token and the user id are gone from storage
\* and a navigation away from the page has been triggered.
C1_AuthFailureEndsSession ==
    (event.op \in ListOrCreateResponse /\ event.status \in AuthFailure)
        => (token = None /\ userId = None /\ event.nav # "")

\* C2: in every reachable state of a generation that stores a user id, the
\* token is in storage if and only if the user id is.
C2_TokenIffUserId ==
    variant \in HasUserId => (token = None <=> userId = None)

\* C3: every create or delete request a step issues is issued while a token
\* is stored and carries that token as its bearer credential.
C3_MutatingCarriesToken ==
    \A r \in SentNow :
        r.ep \in MutatingEndpoints => (token # None /\ r.auth = token)

\* C4: no step issues a create request of type PRICE_TARGET whose target
\* price is null, empty or not sent.
C4_PriceTargetHasPrice ==
    \A r \in SentNow :
        (r.ep = "create-alert" /\ r.body.signal_type = "PRICE_TARGET")
            => r.body.target_price \notin {None, NoKey, ""}

\* C5: the step that handles the outcome of a delete request, whatever the
\* outcome, starts exactly one re-fetch of the alert list.
C5_DeleteRefetchesOnce ==
    event.op = "delete response"
        => Cardinality({i \in 1..Len(event.sent) :
                            event.sent[i].k \in {"list", "list.profile"}}) = 1

\* C6: a delete click the user declined issues no request, and one the user
\* confirmed for alert X issues exactly one request: a POST to
\* /api/delete-alert whose body names alert_id X.
C6_ConfirmedDeleteIsOnePost ==
    event.op = "delete"
        => IF event.x.confirmed
              THEN /\ Len(event.sent) = 1
                   /\ event.sent[1].ep = "delete-alert"
                   /\ event.sent[1].method = "POST"
                   /\ event.sent[1].body.alert_id = event.x.id
              ELSE event.sent = <<>>

\* The j-th smallest element of a set of numbers.
Nth(S, j) == CHOOSE x \in S : Cardinality({y \in S : y < x}) = j - 1

\* The k-th pair of the Cartesian product assets x timeframes, assets first.
ProductPair(b, k) ==
    <<CoinNames[Nth(b.assets, ((k - 1) \div Cardinality(b.tfs)) + 1)],
      TFNames[Nth(b.tfs, ((k - 1) % Cardinality(b.tfs)) + 1)]>>

ProductSize(b) == Cardinality(b.assets) * Cardinality(b.tfs)

BulkStep(n) == event.op \in {"bulk submit", "bulk response"} /\ event.x.id = n

\* C7 as stated: a bulk create that has ended has issued exactly MxN create
\* requests.
C7_BulkIssuesMxNRequests ==
    \A n \in 1..Len(bulks) :
        bulks[n].phase # "running" => Len(bulks[n].issued) = ProductSize(bulks[n])

\* C7, amended: a bulk create makes exactly MxN create calls, one per pair
\* of the Cartesian product in loop order.  A call issues exactly one
\* create request for its pair, except that the API object of
\* static/api.js issues none while no user id is stored; the success count
\* never exceeds MxN.
C7_BulkCallsOncePerPair ==
    \A n \in 1..Len(bulks) :
        LET b == bulks[n] IN
        /\ b.successCount <= ProductSize(b)
        /\ b.calls <= ProductSize(b)
        /\ b.phase # "running" => b.calls = ProductSize(b)
        /\ variant = "P1" => Len(b.issued) = b.calls
        /\ BulkStep(n) =>
              IF b.phase = "running"
                 THEN /\ variant = "UI" => userId # None
                      /\ Len(event.sent) = 1
                      /\ event.sent[1].ep = "create-alert"
                      /\ <<event.sent[1].body.asset, event.sent[1].body.timeframe>>
                             = ProductPair(b, b.calls)
                 ELSE event.sent = <<>>

\* A 2 x 2 bulk create that ended with four requests issued, some of them
\* successful and some not.
C7_Witness ==
    \E n \in 1..Len(bulks) :
        /\ bulks[n].phase = "reported"
        /\ Cardinality(bulks[n].assets) = 2 /\ Cardinality(bulks[n].tfs) = 2
        /\ Len(bulks[n].issued) = 4
        /\ bulks[n].successCount \in 1..3

\* C8: the step that handles a failed bulk create call issues no delete and
\* no second request for the failed pair, and goes on with the next pair if
\* there is one; the report of a finished bulk create names the success
\* count together with the total.
C8_FailureKeepsGoing ==
    \A n \in 1..Len(bulks) :
        (event.op = "bulk response" /\ event.x.id = n /\ ~event.x.success)
            => /\ \A r \in SentNow :
                      /\ r.ep \notin {"delete-alert", "delete-alert/id"}
                      /\ <<r.body.asset, r.body.timeframe>>
                             # <<event.x.req.body.asset, event.x.req.body.timeframe>>
               /\ bulks[n].phase = "running" \/ bulks[n].calls = ProductSize(bulks[n])
               /\ bulks[n].successCount < bulks[n].calls

C8_ReportNamesTotal ==
    \A n \in 1..Len(bulks) :
        bulks[n].phase # "running"
            => bulks[n].report = Text("created of total", bulks[n].successCount,
                                      ProductSize(bulks[n]))

C8_FailedCallReportedAsKofN == C8_FailureKeepsGoing /\ C8_ReportNamesTotal

\* C9: a bulk submit with no asset or no timeframe selected issues no
\* request and leaves the button, the progress indicator, the alert list
\* and the requests in flight as they were.
C9_EmptySelectionChangesNothing ==
    [][event'.op = "bulk submit: no selection"
           => (event'.sent = <<>> /\ UNCHANGED <<form, alertsList, net, bulks>>)]_vars

\* A rejected submit in an open modal with an enabled button.
C9_Witness ==
    /\ event.op = "bulk submit: no selection"
    /\ form.modalOpen /\ ~form.btnDisabled /\ ~form.progressShown

ZeroRecords == event.op = "signals response" /\ event.x.success /\ ~event.x.rows

\* C10: after a signal fetch was answered with zero records, whatever the
\* category, the feed shows the empty state and no audio cue was played.
C10_EmptyFeedNoAudio ==
    ZeroRecords => (scanList = "empty" /\ event.x.audio = 0)

\* A zero-record answer for a category filter has been rendered by a
\* generation that has an audio cue.
C10_Witness ==
    /\ ZeroRecords
    /\ event.x.req.body.signal_type = "BULL"
    /\ variant \in BearerAPI
    /\ scanList = "empty"

\* The step ended with a call of the alert listing (fetchAndDisplayAlerts /
\* refreshAlerts) on the dashboard: the end of the page load, the answer to
\* a delete of the API generations, or the timer that ends a bulk create.
ListedNow ==
    /\ event.nav = ""
    /\ page = "index"
    /\ \/ /\ event.op \in {"DOMContentLoaded", "config", "getSession", "getUser"}
          /\ boot = "done"
          /\ variant # "UI"
       \/ event.op = "delete response" /\ variant \in Mod
       \/ event.op = "bulk timeout"

NoSessionPersisted == token = None /\ userId = None

C11_NoRequestWithoutSession ==
    (ListedNow /\ NoSessionPersisted)
        => \A r \in SentNow : r.ep # "my-alerts"

\* C11: listing the alerts while no session is persisted shows the
\* not-logged-in state and sends no request to /api/my-alerts.
C11_NoSessionShowsNotLoggedIn ==
    (ListedNow /\ NoSessionPersisted)
        => (alertsList = "notLoggedIn" /\ \A r \in SentNow : r.ep # "my-alerts")

\* C12: when getSession() resolved with a session during the page load, the
\* stored token and user id are that session's access_token and user.id,
\* whatever was stored before.
C12_ActiveSessionWins ==
    (event.op = "getSession" /\ event.x.session # NoSession)
        => /\ token = event.x.session.access_token
           /\ userId = event.x.session.user

\* The session of the second account has been resolved and stored.
C12_Witness ==
    /\ event.op = "getSession"
    /\ event.x.session = [access_token |-> "t2", user |-> "u2"]
    /\ token = "t2" /\ userId = "u2"
    /\ variant \in {"AB", "UI"}

\* /api/config was answered by a network error, a status that is not OK, a
\* body that does not parse, or a body without the credentials.
ConfigFailed == event.op = "config" /\ ~event.x.success

C13_ResolutionEndsSoftly ==
    ConfigFailed
        => /\ ~client
           /\ boot = "done"
           /\ \A r \in SentNow : r.method # "SDK"

C14_InvalidTokenCleared ==
    (event.op = "getUser" /\ event.x.session = NoSession)
        => /\ NoSessionPersisted
           /\ event.nav = "login.html"

\* C15: the step that handles a 429 answer to a create-alert request of the
\* single form shows the message of the response body as the status and
\* leaves the stored token and user id as they were.
C15_RateLimitMessageShown ==
    [][(event'.op = "create response" /\ event'.status = 429)
           => (status' = "message" /\ UNCHANGED <<token, userId>>)]_vars

\* C16: after a signal fetch failed on the network (or its body did not
\* parse), the feed shows an error state, which is neither the empty state
\* nor the loading row nor what was shown before.
C16_FetchFailureShowsError ==
    (event.op = "signals response" /\ event.status = 0)
        => scanList = "error"

\* C17: the answer to a signal fetch that was started before the fetch whose
\* answer the list shows is dropped: it changes neither the list nor which
\* fetch the list belongs to.
C17_StaleAnswerDropped ==
    [][(event'.op = "signals response" /\ event'.x.req.cap.seq < feed.shown)
           => (scanList' = scanList /\ feed'.shown = feed.shown)]_vars

\* C18: the chart container never holds more than one widget: every widget
\* is built in a container that was emptied since the last one was built.
C18_AtMostOneWidget == chart <= 1

\* The requests to /api/signals the last step sent.
FeedSent == {r \in SentNow : r.ep = "signals"}

\* C19: an expiry of the refresh timer sends exactly one fetch of
\* /api/signals, for the category of the nav item that is active at that
\* moment, and leaves that item active; a click on a nav item sends exactly
\* one, for the clicked category, which is the active one from then on.
C19_RefetchOnTimerAndFilter ==
    event.op \in {"refresh timer", "signals"}
        => /\ Len(event.sent) = Cardinality(SentNow)
           /\ Cardinality(FeedSent) = 1
           /\ \A r \in FeedSent : r.body.signal_type = event.x.type
           /\ feed.active = event.x.type

\* The timer has expired while the BULL item was active, and BULL was
\* fetched again.
C19_Witness ==
    /\ event.op = "refresh timer"
    /\ feed.active = "BULL"
    /\ \E r \in FeedSent : r.body.signal_type = "BULL"

\* C20: a signal answer with records is rendered, and the audio cue has
\* been played once if its first record is less than a minute old and not
\* at all otherwise.
C20_AudioOnceWhenFresh ==
    (event.op = "signals response" /\ event.x.success /\ event.x.rows)
        => /\ scanList = "rows"
           /\ event.x.audio = IF event.x.fresh THEN 1 ELSE 0

\* The last step ended a create that succeeded: the answer the single form
\* takes for a success, or the timer that ends a bulk create in which at
\* least one call succeeded.
CreateFinished ==
    \/ event.op = "create response" /\ event.x.success
    \/ /\ event.op = "bulk timeout"
       /\ event.nav = ""
       /\ bulks[event.x.id].successCount > 0

\* The last step started the fetch of the alert list: /api/my-alerts, or the
\* profile query fetchAndDisplayAlerts awaits before it.
ListFetchStarted == \E r \in SentNow : r.k \in {"list", "list.profile"}

\* C21 as stated: every create that succeeded is followed, in the step that
\* ends it, by a fetch of the alert list.
C21_CreateRefetchesList == CreateFinished => ListFetchStarted

\* C21, amended: the step that ends a successful create fetches the alert
\* list again unless the navigation of a logout took its place or the
\* session the listing needs is no longer stored (the token; the user id
\* for the API object of static/api.js and for part_003); and that step
\* itself writes no alert rows into the list.
C21_RefetchWhileSessionStored ==
    [][CreateFinished'
          => /\ (event.nav = "" /\ (variant = "UI" \/ token # None)
                    /\ (variant \in {"UI", "P3"} => userId # None))' => ListFetchStarted'
             /\ alertsList' = "rows" => alertsList = "rows"
      ]_vars

\* A single create and a bulk create with a success have ended with a list
\* fetch.
C21_Witness ==
    /\ CreateFinished /\ ListFetchStarted
    /\ \/ event.op = "create response" /\ variant = "SS"
       \/ event.op = "bulk timeout" /\ variant = "P1"


BulkInFlight(n) == {i \in 1..Len(net) : net[i].k = "bulk" /\ net[i].cap.bulk = n}

\* C22: a bulk create has at most one create-alert request in flight, and
\* the request for a pair is sent either by the submit itself (the first
\* pair) or by the step that handles the answer or the failure of the
\* request of the pair before it.
C22_BulkRequestsOneAtATime ==
    \A n \in 1..Len(bulks) :
        /\ Cardinality(BulkInFlight(n)) <= 1
        /\ \A r \in SentNow :
              (r.k = "bulk" /\ r.cap.bulk = n)
                  => \/ event.op = "bulk submit" /\ event.x.id = n
                           /\ Len(bulks[n].issued) = 1
                     \/ event.op = "bulk response" /\ event.x.id = n
                           /\ event.x.req.k = "bulk" /\ Len(bulks[n].issued) > 1

\* The failure of a request has been handled and the request of the next
\* pair is the only one of its bulk create in flight.
C22_Witness ==
    \E n \in 1..Len(bulks) :
        /\ event.op = "bulk response" /\ event.x.id = n /\ event.status = 0
        /\ Cardinality(BulkInFlight(n)) = 1
        /\ Len(bulks[n].issued) = 3


\* C23: once the answer to a create-alert request of the form has been
\* handled (OK, an error status, or a network failure) and the page is
\* still there, the status indicator no longer reads 'Activating...'.
C23_StatusLeavesActivating ==
    (event.op = "create response" /\ event.nav = "") => status # "activating"


SessionFound == event.op = "getSession" /\ event.x.session # NoSession

\* C24 as stated: session processing that finds a session on a page loaded
\* with a hash saves the token and the user id, clears the hash and
\* redirects to index.html; on the dashboard loaded without a hash it does
\* not redirect.
C24_OAuthReturnRedirectsOnce ==
    [][SessionFound'
          => IF hash
                THEN /\ token' = event'.x.session.access_token
                     /\ userId' = event'.x.session.user
                     /\ ~hash'
                     /\ event'.nav = "index.html"
                ELSE page = "index" => event'.nav = ""
      ]_vars

\* C24, amended: session processing that finds a session saves the token and
\* the user id and leaves the page without a hash.  It redirects, to
\* index.html, only from a page loaded with a hash (part_003) or from the
\* login page (part_005); the page it redirects to is the dashboard without
\* a hash, from which it does not redirect again.  part_005 does not redirect
\* after an OAuth return to index.html: it clears the hash in place.
C24_SessionRedirectsAtMostOnce ==
    [][SessionFound'
          => /\ token' = event'.x.session.access_token
             /\ userId' = event'.x.session.user
             /\ ~hash'
             /\ event'.nav \in {"", "index.html"}
             /\ event'.nav = "index.html"
                    <=> \/ variant = "P3" /\ hash
                        \/ variant = "P5" /\ page = "login"
             /\ event'.nav = "index.html" => page' = "index"
             /\ (variant = "P3" /\ ~hash) \/ (variant = "P5" /\ page = "index")
                    => event'.nav = ""
      ]_vars

\* part_003 has processed the session of an OAuth return: token and user id
\* are stored and the document is being replaced by index.html without hash.
C24_Witness ==
    /\ SessionFound /\ variant = "P3"
    /\ event.nav = "index.html" /\ page = "index" /\ boot = "pending" /\ ~hash
    /\ token = event.x.session.access_token /\ userId = event.x.session.user


\* C25: handleLogin sends no login request when the email or the password
\* is empty; an answer that is not OK, or a network failure, leaves the
\* stored token and user id as they were and triggers no navigation; the
\* navigation to index.html happens only on an OK answer, with the token of
\* that answer already stored.
C25_SessionOnlyOnOkLogin ==
    [][/\ event'.op = "handleLogin: empty"
            => (event'.sent = <<>> /\ event'.nav = "" /\ UNCHANGED <<token, userId, net>>)
       /\ (event'.op = "handleLogin response" /\ event'.status # 200)
            => (event'.nav = "" /\ UNCHANGED <<token, userId>>)
       /\ (event'.op = "handleLogin response" /\ event'.nav # "")
            => /\ event'.status = 200 /\ event'.nav = "index.html"
               /\ token' = event'.x.session.access_token
       /\ (event'.op = "handleLogin response" /\ event'.x.success)
            => (token' = event'.x.session.access_token /\ event'.nav = "index.html")
      ]_vars

\* An OK login answer has been handled by part_005: its token is stored and
\* the dashboard is being loaded.
C25_Witness ==
    /\ event.op = "handleLogin response" /\ event.x.success
    /\ event.nav = "index.html" /\ page = "index"
    /\ token = event.x.session.access_token
    /\ variant = "P5"


\* C26: the step that follows the handling of a SIGNED_OUT event, unless it
\* handles a SIGNED_IN event, leaves the token and the user id absent; in
\* particular the answer to a getSession call that was in flight when the
\* SIGNED_OUT event arrived does.
C26_SignedOutStaysSignedOut ==
    [][(event.op = "SIGNED_OUT" /\ event'.op # "SIGNED_IN")
          => (token' = None /\ userId' = None)]_vars


\* C27: the run of logout() that a click on Logout starts removes the token
\* and the user id and triggers a navigation itself, whatever becomes of
\* the auth provider's signOut call.
C27_LogoutClearsAndNavigates ==
    event.op = "logout" => (token = None /\ userId = None /\ event.nav # "")


Stored == IF prefs.watchlist = None THEN <<>> ELSE prefs.watchlist

\* C28: after removeFromWatchlist(s), for a symbol s that was displayed, s
\* is neither in the stored watchlist nor in the rendered one.
C28_RemovedSymbolGone ==
    event.op = "removeFromWatchlist"
        => ~Has(Stored, event.x.type) /\ ~Has(userWatchlist, event.x.type)

\* C29: a logout leaves the stored watchlist and the stored theme as they
\* were.
C29_LogoutKeepsPreferences ==
    [][event'.op \in {"logout", "logout response"} => prefs' = prefs]_vars

Displayed(d) == d \in {"flex", "block"}
Scripted == view.chart # "markup"

\* C30: once one of loadChartView, loadSignalView, onTimeframeChange and
\* switchSidebarTab has run, exactly one of the chart view and the signal
\* view is displayed, the AI panel is displayed exactly when the chart view
\* is, the alerts panel exactly when the signal view is, and while the
\* signal view is displayed exactly one of the main signal table and the
\* strategies container is.
C30_OneViewAtATime ==
    Scripted
        => /\ \A d \in {view.chart, view.signal, view.ai, view.alerts} :
                 d \in {"flex", "block", "none"}
           /\ Displayed(view.chart) # Displayed(view.signal)
           /\ Displayed(view.ai) <=> Displayed(view.chart)
           /\ Displayed(view.alerts) <=> Displayed(view.signal)
           /\ Displayed(view.signal)
                 => /\ {view.mainTable, view.strategies} \subseteq {"block", "none"}
                    /\ Displayed(view.mainTable) # Displayed(view.strategies)

\* The chart view has come back, by the watchlist tab, over a signal view
\* that showed a strategy.
C30_Witness ==
    /\ event.op = "switchSidebarTab" /\ event.x.type = "watchlist"
    /\ Displayed(view.chart) /\ view.strategies = "block" /\ view.mainTable = "none"

====
